---------------------------- MODULE Spec2Model ----------------------------
(***************************************************************************)
(* A model of the table translation pipeline:                              *)
(*   - core/llm_translator.py: LLMTranslator (eligibility filter, cache,   *)
(*     bounded worker pool, final review)            specification Spec    *)
(*     translate_batch with fair workers and a backend that answers        *)
(*                                                   specification SpecLive*)
(*   - tools/translate_pdf_range.py: find_translation_range                *)
(*                                                   specification SpecRange*)
(*   - tools/translate_pdf_range.py: _analyze_merged_cells and             *)
(*     insert_tables_to_template / _apply_merge_to_table                   *)
(*                                                   specification SpecTable*)
(*   - tools/translate_pdf_range.py: _analyze_merged_cells as a function   *)
(*     of its arguments                              specification SpecMerge*)
(*   - core/llm_translator.py: _should_translate as a function of its text *)
(*                                                   specification SpecFilter*)
(*   - tools/translate_pdf_range.py: the page loop of                      *)
(*     extract_tables_from_range                     specification SpecExtract*)
(* Texts are sequences of one-character strings; CJK characters are named  *)
(* "zh_..." because the eligibility filter only looks at their class.      *)
(***************************************************************************)
EXTENDS Integers, Sequences, FiniteSets, TLC

\* ------------------------------------------------------------------ bounds
MaxBatch == 2      \* longest list handed to translate_batch
MaxWorkers == 2    \* largest max_workers tried
MaxOps == 2        \* engine calls per run
MaxPages == 4      \* pages of a document
MaxCells == 3      \* cells of a generated table
MaxText == 3       \* characters of a generated text
MaxRange == 3      \* pages of a translation range

\* ------------------------------------------------------------- characters
Whitespace == {" ", "\n"}
CJK == {"zh_fu", "zh_he", "zh_bu", "zh_tong", "zh_guo", "zh_ge"}
Digits == {"0", "1", "2", "3", "6", "8"}
Upper == {"P", "A", "S", "F", "I", "L", "E", "C", "V", "O", "K", "Y"}
\* the character class [\d\s\.\-\+\/%°℃Ω] of the numeric/symbol pattern
NumSym == Digits \cup Whitespace \cup {".", "-", "+", "/", "%", "deg", "degC", "ohm"}

\* str.strip(): drop leading and trailing whitespace
RECURSIVE LStrip(_)
LStrip(t) ==
  IF t # <<>> /\ Head(t) \in Whitespace THEN LStrip(Tail(t)) ELSE t

RECURSIVE RStrip(_)
RStrip(t) ==
  IF t # <<>> /\ t[Len(t)] \in Whitespace THEN RStrip(SubSeq(t, 1, Len(t) - 1)) ELSE t

Strip(t) == RStrip(LStrip(t))

CountIn(t, S) == Cardinality({i \in 1..Len(t) : t[i] \in S})

\* IsChinese with a character range that matches no CJK character
IsChineseNoMatch(text) ==
  IF text = <<>> THEN TRUE
  ELSE Len(text) - CountIn(text, Whitespace) = 0

\* _is_chinese: empty or all-whitespace text counts as Chinese; otherwise
\* chinese_chars / total_chars > 0.3
IsChinese(text) ==
  IF text = <<>> THEN TRUE
  ELSE LET chinese_chars == CountIn(text, CJK)
           total_chars == Len(text) - CountIn(text, Whitespace)
       IN IF total_chars = 0 THEN TRUE
          ELSE 10 * chinese_chars > 3 * total_chars

\* re.match(r'^[\d\s\.\-\+\/%°℃Ω]+$', text)
MatchNumeric(text) == text # <<>> /\ \A i \in 1..Len(text) : text[i] \in NumSym

\* re.match(r'^[A-Z]+\s*\d+[\-\d\.]*$', s): a scan with states
\* 0 start, 1 in [A-Z]+, 2 in \s*, 3 in \d+, 4 in [\-\d\.]*, 9 reject
StdStep(q, c) ==
  CASE q = 0 /\ c \in Upper -> 1
    [] q = 1 /\ c \in Upper -> 1
    [] q = 1 /\ c \in Whitespace -> 2
    [] q = 1 /\ c \in Digits -> 3
    [] q = 2 /\ c \in Whitespace -> 2
    [] q = 2 /\ c \in Digits -> 3
    [] q = 3 /\ c \in Digits -> 3
    [] q = 3 /\ c \in {"-", "."} -> 4
    [] q = 4 /\ c \in Digits \cup {"-", "."} -> 4
    [] OTHER -> 9

RECURSIVE StdRun(_, _)
StdRun(q, s) == IF s = <<>> THEN q ELSE StdRun(StdStep(q, Head(s)), Tail(s))

MatchStandard(s) == StdRun(0, s) \in {3, 4}

\* _should_translate
ShouldTranslate(text) ==
  IF text = <<>> \/ Len(Strip(text)) < 3 THEN FALSE
  ELSE IF IsChinese(text) THEN FALSE
  ELSE IF MatchNumeric(text) THEN FALSE
  ELSE IF MatchStandard(Strip(text)) THEN FALSE
  ELSE TRUE

\* ------------------------------------------------------------ text pools
T_PASS == <<"P", "A", "S", "S">>
T_PASS_PAD == <<" ", "P", "A", "S", "S">>
T_FAIL == <<"F", "A", "I", "L">>
T_TONGGUO == <<"zh_tong", "zh_guo">>
Z_FUHE == <<"zh_fu", "zh_he">>
Z_BUHEGE == <<"zh_bu", "zh_he", "zh_ge">>
E_OKAY == <<"O", "K", "A", "Y">>
Z_BUFUHE == <<"zh_bu", "zh_fu", "zh_he">>
\* "220V +-10%" and "IEC 62368-1"; "pm" is the plus-minus sign
T_220V == <<"2", "2", "0", "V", " ", "pm", "1", "0", "%">>
T_IEC == <<"I", "E", "C", " ", "6", "2", "3", "6", "8", "-", "1">>
\* three CJK characters among ten that are not whitespace: a ratio of 0.3
T_RATIO == <<"zh_bu", "zh_fu", "zh_he", " ", "P", "A", "S", "S", "F", "A", "I">>

\* texts the callers hand to the engine
TextPool == {T_PASS, T_PASS_PAD, T_FAIL, T_TONGGUO}

RECURSIVE SeqsUpTo(_, _)
SeqsUpTo(S, n) ==
  IF n = 0 THEN {<<>>}
  ELSE LET shorter == SeqsUpTo(S, n - 1)
       IN shorter \cup {Append(s, x) : s \in {t \in shorter : Len(t) = n - 1}, x \in S}

BatchInputs == SeqsUpTo(TextPool, MaxBatch)

\* response.choices[0].message.content of a successful completion for the
\* prompt built from text: the backend may answer the same text differently,
\* may pad its answer, and may answer in the source language
Backend(text) ==
  CASE Strip(text) = T_PASS -> {Append(Z_FUHE, "\n"), E_OKAY}
    [] Strip(text) = T_FAIL -> {Z_BUFUHE}
    [] OTHER -> {Z_BUHEGE}

\* ---------------------------------------------------------------- state
VARIABLES
  env,              \* what __init__ found: has_openai, api_key, ctor_ok
  enabled,         \* LLMTranslator.enabled
  client,           \* LLMTranslator.client is not None
  max_workers,      \* LLMTranslator.max_workers
  cache,            \* LLMTranslator._cache: trimmed text -> translation
  pc,               \* "idle", "batch" (workers running), "returned"
  cur,              \* the call in progress or just returned: kind, arg
  ret,              \* its return value
  last,             \* the final_review call before it, if it was one: kind, arg, out
  nops,             \* calls made so far
  results,          \* translate_batch: results
  to_translate,     \* translate_batch: to_translate
  indices,          \* translate_batch: indices (1-based)
  keys,             \* final_review: keys of to_review (1-based field numbers)
  task,             \* the futures: st, out, how
  upstream_calls,   \* observer: trimmed text -> completions requested (1, or 2 for more)
  backend_failed    \* observer: some completion raised or was malformed

engineVars == <<env, enabled, client, max_workers, cache, pc, cur, ret, last, nops,
                results, to_translate, indices, keys, task, upstream_calls,
                backend_failed>>

\* find_translation_range
VARIABLES
  pages,            \* pdf.pages: the markers each page's text contains
  page_i,           \* i, the page the loop is at (0-based)
  start_page,       \* start_page (None before the start marker was seen)
  end_page,         \* end_page
  rpc               \* "off", "scan" (in the loop), "after" (loop left), "done"

rangeVars == <<pages, page_i, start_page, end_page, rpc>>

\* extract_tables_from_range and insert_tables_to_template, for one table
VARIABLES
  cells,            \* table_obj.cells: quads <<x0, top, x1, bottom>>
  filled_rects,     \* the gray rectangles of the page, as quads
  rows,             \* table_data['rows']
  col_count,        \* table_data['col_count']
  merge_info,       \* table_data['merge_info']
  row_backgrounds,  \* table_data['row_backgrounds']
  merged_cells,     \* the set of covered (row, col) of insert_tables_to_template
  new_table,        \* the w:tbl built in the document: rows of w:tc
  r_idx,            \* the row the loop that fills the table is at (0-based)
  c_idx,            \* the cell of that row it is at (0-based)
  m_i,              \* how many spans of merge_info have been applied
  tpc               \* "off", "found", "extracted", "given", "filling", "filled",
                    \* "inserted", "skipped"

tableVars == <<cells, filled_rects, rows, col_count, merge_info, row_backgrounds,
               merged_cells, new_table, r_idx, c_idx, m_i, tpc>>

\* LLMTranslator._should_translate, called on its own
VARIABLES
  f_text,           \* the argument text
  should,           \* the value returned
  fpc               \* "off", "called", "returned"

filterVars == <<f_text, should, fpc>>

\* extract_tables_from_range, the loop over the pages of the range
VARIABLES
  x_pages,          \* the pages start_page .. end_page-1: what find_tables and
                    \* extract() do on each
  page_idx,         \* the page the loop is at, counted from start_page
  x_tables,         \* tables: <<page, number of the table on its page>>
  xpc               \* "off", "pages" (in the loop), "returned", "raised"

extractVars == <<x_pages, page_idx, x_tables, xpc>>

vars == <<engineVars, rangeVars, tableVars, filterVars, extractVars>>

NoCall == [kind |-> "none", arg |-> <<>>, out |-> <<>>]

\* EnabledAfterInit without the check of the API key
EnabledIgnoringKey(has_openai, api_key, ctor_ok) == has_openai /\ ctor_ok

\* __init__: enabled only if the package is importable, the key is set and
\* the client constructor did not raise
EnabledAfterInit(has_openai, api_key, ctor_ok) == has_openai /\ api_key /\ ctor_ok

InitEngine ==
  /\ env \in [has_openai : BOOLEAN, api_key : BOOLEAN, ctor_ok : BOOLEAN]
  /\ client = EnabledAfterInit(env.has_openai, env.api_key, env.ctor_ok)
  /\ enabled = EnabledAfterInit(env.has_openai, env.api_key, env.ctor_ok)
  /\ max_workers \in 1..MaxWorkers
  /\ cache = <<>>
  /\ pc = "idle"
  /\ cur = [kind |-> "none", arg |-> <<>>]
  /\ ret = <<>>
  /\ last = NoCall
  /\ nops = 0
  /\ results = <<>>
  /\ to_translate = <<>>
  /\ indices = <<>>
  /\ keys = <<>>
  /\ task = <<>>
  /\ upstream_calls = <<>>
  /\ backend_failed = FALSE

\* ------------------------------------------------------- engine helpers
\* a store that keeps the new entry only
CachePutAlone(c, k, v) == [x \in {k} |-> v]

\* lines 150-151: self._cache[cache_key] = result
CachePut(c, k, v) == [x \in DOMAIN c \cup {k} |-> IF x = k THEN v ELSE c[x]]

Count(f, k) == IF k \in DOMAIN f THEN f[k] ELSE 0

\* the observer counts the requests per trimmed text as 1 (once) or 2 (more
\* than once)
Bump(f, k) ==
  [x \in DOMAIN f \cup {k} |-> IF x = k THEN (IF Count(f, k) = 0 THEN 1 ELSE 2) ELSE f[x]]

\* a translate that skips the eligibility filter
TranslateSkipsDisabledOnly(text) == ~enabled

\* a handler that turns the engine off after a failed call
DisabledAfterFailure(was_enabled) == FALSE

\* translate, lines 153-155: the handler of a failed call logs and returns
\* the text; self.enabled is assigned in __init__ only
EnabledAfterFailure(was_enabled) == was_enabled

\* translate, line 130: the early return
TranslateSkips(text) == ~enabled \/ ~ShouldTranslate(text)

\* FailureResult losing the source text
FailureResultEmpty(text) == <<>>

\* translate, lines 153-155: what a failed completion returns
FailureResult(text) == text

\* translate_batch, lines 172-184: the slots filled from the cache
Prefilled(xs, c) ==
  [i \in 1..Len(xs) |->
     IF ShouldTranslate(xs[i]) /\ Strip(xs[i]) \in DOMAIN c
     THEN c[Strip(xs[i])] ELSE xs[i]]

\* translate_batch, lines 172-184: indices, the slots left to the workers
Pending(xs, c) ==
  LET Uncached(i) == ShouldTranslate(xs[i]) /\ Strip(xs[i]) \notin DOMAIN c
  IN SelectSeq([i \in 1..Len(xs) |-> i], Uncached)

\* OriginalIdx without the remapping through indices
OriginalIdxNoRemap(batch_idx) == batch_idx

\* translate_batch, line 202: the slot a finished future is written to
OriginalIdx(batch_idx) == indices[batch_idx]

\* a review that hands every field to translate_batch
ToReviewAll(fields) == [f \in 1..Len(fields) |-> f]

\* final_review, lines 219-222: the fields still to translate
ToReview(fields) ==
  LET Residual(f) == /\ fields[f] # <<>>
                     /\ ~IsChinese(fields[f])
                     /\ ShouldTranslate(fields[f])
  IN SelectSeq([f \in 1..Len(fields) |-> f], Residual)

\* final_review, lines 234-238: the translated values put back under their keys
ReviewResult(fields, ks, translated) ==
  [f \in 1..Len(fields) |->
     IF \E i \in 1..Len(ks) : ks[i] = f
     THEN translated[CHOOSE i \in 1..Len(ks) : ks[i] = f]
     ELSE fields[f]]

\* ------------------------------------------------ translate_tables
\* tools/translate_pdf_range.py. A table is a record page, rows, col_count,
\* merge_info, row_backgrounds; positions are counted from 1.
\* [a-zA-Z]: the texts of the model hold no lower-case letter
Letters == Upper

\* _needs_translation, lines 496-512
NeedsTranslation(cell) ==
  IF cell = <<>> THEN FALSE
  ELSE LET chinese_chars == CountIn(cell, CJK)
           total_chars == CountIn(cell, Letters \cup CJK)
       IN IF total_chars = 0 THEN FALSE
          ELSE IF 10 * chinese_chars > 9 * total_chars THEN FALSE
          ELSE TRUE

RECURSIVE Concat(_)
Concat(ss) == IF ss = <<>> THEN <<>> ELSE Head(ss) \o Concat(Tail(ss))

\* lines 345-347: the cells in the order of the three loops
AllPositions(tables) ==
  Concat([t \in 1..Len(tables) |->
            Concat([r \in 1..Len(tables[t].rows) |->
                      [c \in 1..Len(tables[t].rows[r]) |-> <<t, r, c>>]])])

CellAt(tables, pos) == tables[pos[1]].rows[pos[2]][pos[3]]

\* lines 345-350: text_positions
TextPositions(tables) ==
  LET Sent(pos) == CellAt(tables, pos) # <<>> /\ NeedsTranslation(CellAt(tables, pos))
  IN SelectSeq(AllPositions(tables), Sent)

\* lines 345-350: all_texts
AllTexts(tables) ==
  [i \in 1..Len(TextPositions(tables)) |-> CellAt(tables, TextPositions(tables)[i])]

\* SpliceTarget writing every value to the first position
SpliceTargetFirst(text_positions, i) == text_positions[1]

\* line 363: the cell the i-th translated text is written to
SpliceTarget(text_positions, i) == text_positions[i]

\* lines 363-364: the writes, one after the other
RECURSIVE SpliceFrom(_, _, _, _)
SpliceFrom(tt, text_positions, translated_texts, i) ==
  IF i > Len(text_positions) THEN tt
  ELSE LET pos == SpliceTarget(text_positions, i)
       IN SpliceFrom([tt EXCEPT ![pos[1]].rows[pos[2]][pos[3]] = translated_texts[i]],
                     text_positions, translated_texts, i + 1)

\* line 360: deepcopy, a new object with the value of tables
Deepcopy(tables) == tables

\* lines 360-364: the writes go to the copy, the caller's tables keep
\* their value
CallersTables(tables, translated_tables) == tables

\* the call in progress: for translate_tables, arg is the caller's list as
\* it is now and given its value when the call was made
CallOf(kind, arg) ==
  IF kind = "tables" THEN [kind |-> kind, arg |-> arg, given |-> arg]
  ELSE [kind |-> kind, arg |-> arg]

AfterReturn(call, value) ==
  IF call.kind = "tables"
  THEN [call EXCEPT !.arg = CallersTables(call.arg, value)]
  ELSE call

\* lines 360-366: translated_tables
Splice(tables, text_positions, translated_texts) ==
  SpliceFrom(Deepcopy(tables), text_positions, translated_texts, 1)

\* what the function that called translate_batch returns with its result
Returned(kind, arg, ks, translated) ==
  CASE kind = "review" -> ReviewResult(arg, ks, translated)
    [] kind = "tables" -> Splice(arg, ks, translated)
    [] OTHER -> translated

Queued == {b \in 1..Len(task) : task[b].st = "queued"}
Calling == {b \in 1..Len(task) : task[b].st = "calling"}

\* a pool that starts every submitted task at once
PoolUnbounded == TRUE

\* line 192, ThreadPoolExecutor(max_workers): a queued task starts when one
\* of the max_workers threads is free
PoolHasIdleWorker == Cardinality(Calling) < max_workers

CanCall == pc = "idle" /\ nops < MaxOps

NoBatch ==
  /\ results' = <<>>
  /\ to_translate' = <<>>
  /\ indices' = <<>>
  /\ task' = <<>>

\* translate_batch(xs) up to the submission of the futures (lines 166-196),
\* called by kind with the fields ks of a review (none for a plain batch)
StartBatch(kind, arg, xs, ks) ==
  /\ keys' = ks
  /\ IF Pending(xs, cache) = <<>>
     THEN /\ pc' = "returned"
          /\ ret' = Returned(kind, arg, ks, Prefilled(xs, cache))
          /\ cur' = AfterReturn(CallOf(kind, arg), ret')
          /\ NoBatch
     ELSE /\ pc' = "batch"
          /\ cur' = CallOf(kind, arg)
          /\ ret' = <<>>
          /\ results' = Prefilled(xs, cache)
          /\ indices' = Pending(xs, cache)
          /\ to_translate' = [b \in 1..Len(Pending(xs, cache)) |-> xs[Pending(xs, cache)[b]]]
          /\ task' = [b \in 1..Len(Pending(xs, cache)) |->
                        [st |-> "queued", out |-> <<>>, how |-> "none"]]

\* ------------------------------------------------------- engine actions
\* translate(text) called by the main thread (lines 128-155); the thread
\* blocks on the completion, so the call is one step with either outcome
Translate(text) ==
  /\ CanCall
  /\ nops' = nops + 1
  /\ cur' = [kind |-> "translate", arg |-> text]
  /\ pc' = "returned"
  /\ keys' = <<>>
  /\ NoBatch
  /\ IF TranslateSkips(text)
     THEN /\ ret' = text
          /\ UNCHANGED <<enabled, cache, upstream_calls, backend_failed>>
     ELSE IF Strip(text) \in DOMAIN cache
     THEN /\ ret' = cache[Strip(text)]
          /\ UNCHANGED <<enabled, cache, upstream_calls, backend_failed>>
     ELSE /\ upstream_calls' = Bump(upstream_calls, Strip(text))
          /\ \/ \E content \in Backend(text) :
                  /\ ret' = Strip(content)
                  /\ cache' = CachePut(cache, Strip(text), Strip(content))
                  /\ UNCHANGED <<enabled, backend_failed>>
             \/ /\ ret' = FailureResult(text)
                /\ backend_failed' = TRUE
                /\ enabled' = EnabledAfterFailure(enabled)
                /\ UNCHANGED cache
  /\ UNCHANGED <<env, client, max_workers, last>>

\* translate_batch(texts), lines 166-196: the disabled engine returns texts,
\* an enabled one fills the cached slots and submits the rest
TranslateBatch(xs) ==
  /\ CanCall
  /\ nops' = nops + 1
  /\ IF ~enabled
     THEN /\ cur' = [kind |-> "batch", arg |-> xs]
          /\ pc' = "returned"
          /\ ret' = xs
          /\ keys' = <<>>
          /\ NoBatch
     ELSE StartBatch("batch", xs, xs, <<>>)
  /\ UNCHANGED <<env, enabled, client, max_workers, cache, last, upstream_calls,
                 backend_failed>>

\* translate_tables(tables), lines 332-358: the texts of the cells that need
\* translation go to translate_batch of the shared translator in one list;
\* without such a cell the copy of the tables is returned
TranslateTables(tables) ==
  /\ CanCall
  /\ nops' = nops + 1
  /\ IF AllTexts(tables) = <<>> \/ ~enabled
     THEN /\ ret' = Splice(tables, TextPositions(tables), AllTexts(tables))
          /\ cur' = AfterReturn(CallOf("tables", tables), ret')
          /\ pc' = "returned"
          /\ keys' = <<>>
          /\ NoBatch
     ELSE StartBatch("tables", tables, AllTexts(tables), TextPositions(tables))
  /\ UNCHANGED <<env, enabled, client, max_workers, cache, last, upstream_calls,
                 backend_failed>>

\* final_review(texts), lines 213-232: returns texts when disabled or when
\* nothing is left to review, else hands the residual values to translate_batch
FinalReview(fields) ==
  /\ CanCall
  /\ nops' = nops + 1
  /\ IF ~enabled \/ ToReview(fields) = <<>>
     THEN /\ cur' = [kind |-> "review", arg |-> fields]
          /\ pc' = "returned"
          /\ ret' = fields
          /\ keys' = <<>>
          /\ NoBatch
     ELSE StartBatch("review", fields,
                     [i \in 1..Len(ToReview(fields)) |-> fields[ToReview(fields)[i]]],
                     ToReview(fields))
  /\ UNCHANGED <<env, enabled, client, max_workers, cache, last, upstream_calls,
                 backend_failed>>

\* a pool thread takes the oldest queued future and runs
\* _translate_single_for_batch up to the completion request (lines 157-160,
\* 128-137): at most max_workers futures run at once
WorkerStart ==
  /\ pc = "batch"
  /\ Queued # {}
  /\ PoolHasIdleWorker
  /\ LET b == CHOOSE q \in Queued : \A r \in Queued : q <= r
         text == to_translate[b]
     IN IF TranslateSkips(text)
        THEN /\ task' = [task EXCEPT ![b] = [st |-> "done", out |-> text, how |-> "skip"]]
             /\ UNCHANGED upstream_calls
        ELSE IF Strip(text) \in DOMAIN cache
        THEN /\ task' = [task EXCEPT ![b] = [st |-> "done", out |-> cache[Strip(text)],
                                             how |-> "hit"]]
             /\ UNCHANGED upstream_calls
        ELSE /\ task' = [task EXCEPT ![b].st = "calling"]
             /\ upstream_calls' = Bump(upstream_calls, Strip(text))
  /\ UNCHANGED <<env, enabled, client, max_workers, cache, pc, cur, ret, last, nops,
                 results, to_translate, indices, keys, backend_failed>>

\* the completion of future b returns: the stripped content is cached and
\* returned (lines 149-152, 161)
UpstreamOk(b) ==
  /\ pc = "batch"
  /\ b \in Calling
  /\ \E content \in Backend(to_translate[b]) :
       /\ cache' = CachePut(cache, Strip(to_translate[b]), Strip(content))
       /\ task' = [task EXCEPT ![b] = [st |-> "done", out |-> Strip(content), how |-> "ok"]]
  /\ UNCHANGED <<env, enabled, client, max_workers, pc, cur, ret, last, nops,
                 results, to_translate, indices, keys, upstream_calls, backend_failed>>

\* the completion of future b raises or is malformed: translate returns the
\* text (lines 153-155)
UpstreamFail(b) ==
  /\ pc = "batch"
  /\ b \in Calling
  /\ task' = [task EXCEPT ![b] = [st |-> "done", out |-> FailureResult(to_translate[b]),
                                  how |-> "fail"]]
  /\ backend_failed' = TRUE
  /\ enabled' = EnabledAfterFailure(enabled)
  /\ UNCHANGED <<env, client, max_workers, cache, pc, cur, ret, last, nops,
                 results, to_translate, indices, keys, upstream_calls>>

\* as_completed yields the finished future b: its result goes to its slot
\* (lines 199-203)
Collect(b) ==
  /\ pc = "batch"
  /\ b \in 1..Len(task)
  /\ task[b].st = "done"
  /\ results' = [results EXCEPT ![OriginalIdx(b)] = task[b].out]
  /\ task' = [task EXCEPT ![b].st = "collected"]
  /\ UNCHANGED <<env, enabled, client, max_workers, cache, pc, cur, ret, last, nops,
                 to_translate, indices, keys, upstream_calls, backend_failed>>

\* a loop that ends with the first result it has taken
SomeCollected == \E b \in 1..Len(task) : task[b].st = "collected"

\* a return as soon as every future has been started
NoneQueued == \A b \in 1..Len(task) : task[b].st # "queued"

\* lines 192-208: the as_completed loop ends when it has yielded every
\* submitted future, and the with block joins the pool
AllCollected == \A b \in 1..Len(task) : task[b].st = "collected"

\* every future has been collected: translate_batch returns results (line
\* 211), final_review puts them back under their keys (lines 234-238) and
\* translate_tables into a copy of its tables (lines 360-366)
BatchReturn ==
  /\ pc = "batch"
  /\ AllCollected
  /\ pc' = "returned"
  /\ ret' = Returned(cur.kind, cur.arg, keys, results)
  /\ cur' = AfterReturn(cur, ret')
  /\ UNCHANGED <<env, enabled, client, max_workers, cache, last, nops, results,
                 to_translate, indices, keys, task, upstream_calls, backend_failed>>

\* the caller takes the returned value and the locals of the call are gone;
\* after a final_review it either keeps the returned fields, to review them
\* once more, or drops them
CallerProceeds ==
  /\ pc = "returned"
  /\ pc' = "idle"
  /\ \/ last' = NoCall
     \/ /\ cur.kind = "review"
        /\ last' = [kind |-> cur.kind, arg |-> cur.arg, out |-> ret]
  /\ cur' = [kind |-> "none", arg |-> <<>>]
  /\ ret' = <<>>
  /\ keys' = <<>>
  /\ NoBatch
  /\ UNCHANGED <<env, enabled, client, max_workers, cache, nops, upstream_calls,
                 backend_failed>>

\* the named fields handed to final_review: two fields, "1" and "2"
FieldSets == {<<a, b>> : a \in TextPool, b \in TextPool}

\* the tables handed to translate_tables: one table of one row and two
\* columns, or two tables of one cell each
TableOf(page, rs, cc, ms, bgs) ==
  [page |-> page, rows |-> rs, col_count |-> cc, merge_info |-> ms,
   row_backgrounds |-> bgs]

TableInputs ==
  {<<>>}
  \cup {<<TableOf(9, <<<<a, b>>>>, 2,
                  <<[row |-> 0, col |-> 0, colspan |-> 2, rowspan |-> 1]>>, <<TRUE>>)>> :
          a \in {<<>>, T_PASS, T_IEC, T_TONGGUO}, b \in {<<>>, T_PASS, T_IEC, T_TONGGUO}}
  \cup {<<TableOf(9, <<<<a>>>>, 1, <<>>, <<FALSE>>),
          TableOf(10, <<<<b>>>>, 1, <<>>, <<TRUE>>)>> :
          a \in {T_PASS, T_FAIL}, b \in {T_PASS, T_FAIL}}

\* what the caller passes next: anything when it kept nothing, the kept
\* fields to final_review otherwise
Fresh == last.kind = "none"
ReviewInputs == IF Fresh THEN FieldSets ELSE {last.out}

\* the engine before any call, for the specifications of the other parts
EngineOff ==
  /\ env = [has_openai |-> FALSE, api_key |-> FALSE, ctor_ok |-> FALSE]
  /\ client = FALSE
  /\ enabled = FALSE
  /\ max_workers = 1
  /\ cache = <<>>
  /\ pc = "off"
  /\ cur = [kind |-> "none", arg |-> <<>>]
  /\ ret = <<>>
  /\ last = NoCall
  /\ nops = 0
  /\ results = <<>>
  /\ to_translate = <<>>
  /\ indices = <<>>
  /\ keys = <<>>
  /\ task = <<>>
  /\ upstream_calls = <<>>
  /\ backend_failed = FALSE

\* ------------------------------------------------------- range detector
START_MARKER == "OVERVIEW OF ENERGY SOURCES AND SAFEGUARDS"
END_MARKERS == {"ATTACHMENT TO TEST REPORT", "ATTACHMENTS TO TEST REPORT"}

\* start_page = None
None == -1

\* a page is the set of markers its extracted text contains
Documents == SeqsUpTo(SUBSET ({START_MARKER} \cup END_MARKERS), MaxPages)

\* lines 75-79: some end marker is in the text
HasEndMarker(text) == \E end_marker \in END_MARKERS : end_marker \in text

RangeOff ==
  /\ pages = <<>>
  /\ page_i = 0
  /\ start_page = None
  /\ end_page = 0
  /\ rpc = "off"

\* lines 62-64: the document is open, the loop has not started
InitRange ==
  /\ pages \in Documents
  /\ page_i = 0
  /\ start_page = None
  /\ end_page = Len(pages)
  /\ rpc = "scan"

\* an upper bound that leaves out the page before the marker page as well
EndBefore(i) == i - 1

\* line 77: end_page = i, the page of the end marker is not included
EndAt(i) == i

\* one iteration of the loop over the pages, lines 66-82
ScanPage ==
  /\ rpc = "scan"
  /\ page_i < Len(pages)
  /\ LET text == pages[page_i + 1]
         found_start == start_page = None /\ START_MARKER \in text
         new_end == IF HasEndMarker(text) THEN EndAt(page_i) ELSE end_page
     IN /\ start_page' = IF found_start THEN page_i ELSE start_page
        /\ end_page' = new_end
        /\ IF new_end # Len(pages)
           THEN /\ rpc' = "after"
                /\ page_i' = page_i
           ELSE /\ rpc' = IF page_i + 1 < Len(pages) THEN "scan" ELSE "after"
                /\ page_i' = page_i + 1
  /\ UNCHANGED pages

\* a document without pages: the loop body never runs
ScanNothing ==
  /\ rpc = "scan"
  /\ Len(pages) = 0
  /\ rpc' = "after"
  /\ UNCHANGED <<pages, page_i, start_page, end_page>>

\* lines 84-94: the default of the start and the return
FinishScan ==
  /\ rpc = "after"
  /\ start_page' = IF start_page = None THEN 0 ELSE start_page
  /\ rpc' = "done"
  /\ UNCHANGED <<pages, page_i, end_page>>

\* ------------------------------------------------------------- tables
\* Coordinates are counted in half points, so that the ties of round() occur.
Min(S) == CHOOSE x \in S : \A y \in S : x <= y

\* round(x, 0) of Python: to the nearest integer, a tie to the even one
Round(h) ==
  IF h % 2 = 0 THEN h \div 2
  ELSE LET f == h \div 2 IN IF f % 2 = 0 THEN f ELSE f + 1

RECURSIVE Sorted(_)
Sorted(S) == IF S = {} THEN <<>> ELSE <<Min(S)>> \o Sorted(S \ {Min(S)})

Range(seq) == {seq[i] : i \in 1..Len(seq)}

\* list.index, 0-based
Index(seq, v) == (CHOOSE i \in 1..Len(seq) : seq[i] = v) - 1

\* lines 132-138: find_tables snaps lines closer than this many points
\* together, so two edges of one cell are at least this far apart
SnapTolerance == 3

\* the page positions (half points) of the table lines; 7 and 8 are 3.5 and
\* 4.0 points, which round() sends to the same grid line
XEdges == {0, 7, 8, 14, 21}
YEdges == {0, 7, 14, 21}

Quads ==
  {q \in XEdges \X YEdges \X XEdges \X YEdges :
     /\ q[3] - q[1] >= 2 * SnapTolerance
     /\ q[4] - q[2] >= 2 * SnapTolerance}

Overlaps(a, b) == a[1] < b[3] /\ b[1] < a[3] /\ a[2] < b[4] /\ b[2] < a[4]

\* the order of table_obj.cells: by the top-left corner, x0 first
Before(a, b) == a[1] < b[1] \/ (a[1] = b[1] /\ a[2] < b[2])

Extend(S) ==
  {Append(t, q) : <<t, q>> \in
     {p \in S \X Quads :
        /\ p[1] = <<>> \/ Before(p[1][Len(p[1])], p[2])
        /\ \A i \in 1..Len(p[1]) : ~Overlaps(p[1][i], p[2])}}

RECURSIVE CellLists(_)
CellLists(n) ==
  IF n = 0 THEN {<<>>}
  ELSE LET shorter == CellLists(n - 1) IN shorter \cup Extend(shorter)

\* a grid of 4 columns and 3 rows whose first cell spans 3 columns and 2
\* rows; columns and rows are 7 points wide
SyntheticTable ==
  << <<0, 0, 42, 28>>, <<0, 28, 14, 42>>, <<14, 28, 28, 42>>,
     <<28, 28, 42, 42>>, <<42, 0, 56, 14>>, <<42, 14, 56, 28>>,
     <<42, 28, 56, 42>> >>

\* a table found by find_tables has cells
Tables == (CellLists(MaxCells) \ {<<>>}) \cup {SyntheticTable}

\* page.rects with a fill, as (x0, top, x1, bottom, non_stroking_color in
\* hundredths): none, or one rectangle over the page or over its top 3.5
\* points, in a colour at or between the bounds
PageRects ==
  {<<>>} \cup {<< <<0, 0, 56, b, color>> >> : b \in {7, 42}, color \in {70, 90, 100}}

\* line 214: 0.7 < color < 1.0
GrayAbove == 70
GrayBelow == 100

\* _extract_filled_rects, lines 205-221: the gray rectangles of the page
ExtractFilledRects(rects) ==
  SelectSeq(rects, LAMBDA rect : GrayAbove < rect[5] /\ rect[5] < GrayBelow)

\* filled_rects of a page
RectLists == {ExtractFilledRects(rects) : rects \in PageRects}

\* CellText: what extract() reads in a cell; "" after _normalize_cell(None)
CellText == "text"

\* lines 148-159, table_obj.extract() and the normalisation: one row for
\* each distinct top and one column for each distinct x0 of the cells, a
\* position without a cell of its own holding None, normalised to ""
Tops(cs) == Sorted({c[2] : c \in Range(cs)})
Lefts(cs) == Sorted({c[1] : c \in Range(cs)})

Extract(cs) ==
  [r \in 1..Len(Tops(cs)) |->
     [c \in 1..Len(Lefts(cs)) |->
        IF \E q \in Range(cs) : q[2] = Tops(cs)[r] /\ q[1] = Lefts(cs)[c]
        THEN CellText ELSE ""]]

RECURSIVE MaxLen(_)
MaxLen(rs) ==
  IF rs = <<>> THEN 0
  ELSE LET rest == MaxLen(Tail(rs))
       IN IF Len(Head(rs)) > rest THEN Len(Head(rs)) ELSE rest

\* lines 286-287: the sorted distinct rounded edges
x_coords(cs) ==
  Sorted({Round(c[1]) : c \in Range(cs)} \cup {Round(c[3]) : c \in Range(cs)})
y_coords(cs) ==
  Sorted({Round(c[2]) : c \in Range(cs)} \cup {Round(c[4]) : c \in Range(cs)})

\* SpanOf counting the edges instead of the intervals between them
SpanTooWide(start, end) == end - start + 1

\* lines 304-305
SpanOf(start, end) == end - start

\* lines 293-305: the grid address and the spans of one cell
CellSpan(cell, cs) ==
  LET start_col == Index(x_coords(cs), Round(cell[1]))
      end_col == Index(x_coords(cs), Round(cell[3]))
      start_row == Index(y_coords(cs), Round(cell[2]))
      end_row == Index(y_coords(cs), Round(cell[4]))
  IN [row |-> start_row, col |-> start_col,
      colspan |-> SpanOf(start_col, end_col),
      rowspan |-> SpanOf(start_row, end_row)]

\* IsMerged asking for both spans
AnyMerged(m) == m.colspan > 1 /\ m.rowspan > 1

\* line 308
IsMerged(m) == m.colspan > 1 \/ m.rowspan > 1

\* TooFewEdges asking for both edge lists to be short
TooFewEdgesBoth(cs) == Len(x_coords(cs)) < 2 /\ Len(y_coords(cs)) < 2

\* line 289
TooFewEdges(cs) == Len(x_coords(cs)) < 2 \/ Len(y_coords(cs)) < 2

\* lines 263-318
AnalyzeMergedCells(cs, rs, cc) ==
  IF rs = <<>> \/ cc = 0 THEN <<>>
  ELSE IF cs = <<>> THEN <<>>
  ELSE IF TooFewEdges(cs) THEN <<>>
  ELSE LET spans == [i \in 1..Len(cs) |-> CellSpan(cs[i], cs)]
           Keep(m) == IsMerged(m) /\ m.row < Len(rs)
       IN SelectSeq(spans, Keep)

\* lines 237-258: is the cell at r_idx * col_count inside a gray rectangle
Tolerance == 5

Covers(rect, cell) ==
  /\ rect[1] <= cell[1] + 2 * Tolerance
  /\ rect[3] >= cell[3] - 2 * Tolerance
  /\ rect[2] <= cell[2] + 2 * Tolerance
  /\ rect[4] >= cell[4] - 2 * Tolerance

AnalyzeRowBackgrounds(cs, rs, cc, rects) ==
  [r \in 1..Len(rs) |->
     LET cell_idx == (r - 1) * cc
     IN IF cell_idx >= Len(cs) THEN FALSE
        ELSE \E rect \in Range(rects) : Covers(rect, cs[cell_idx + 1])]

TableOff ==
  /\ cells = <<>>
  /\ filled_rects = <<>>
  /\ rows = <<>>
  /\ col_count = 0
  /\ merge_info = <<>>
  /\ row_backgrounds = <<>>
  /\ merged_cells = {}
  /\ new_table = <<>>
  /\ r_idx = 0
  /\ c_idx = 0
  /\ m_i = 0
  /\ tpc = "off"


\* lines 129-146: a table object was found on the page
InitTable ==
  /\ cells \in Tables
  /\ filled_rects \in RectLists
  /\ rows = <<>>
  /\ col_count = 0
  /\ merge_info = <<>>
  /\ row_backgrounds = <<>>
  /\ merged_cells = {}
  /\ new_table = <<>>
  /\ r_idx = 0
  /\ c_idx = 0
  /\ m_i = 0
  /\ tpc = "found"

\* lines 146-189: the table model of one table object. The cell texts name
\* no page header (lines 165-175), and translate_tables leaves the rows, the
\* column count and the spans as they are.
ExtractTable ==
  /\ tpc = "found"
  /\ rows' = Extract(cells)
  /\ col_count' = MaxLen(rows')
  /\ merge_info' = AnalyzeMergedCells(cells, rows', col_count')
  /\ row_backgrounds' = AnalyzeRowBackgrounds(cells, rows', col_count', filled_rects)
  /\ tpc' = "extracted"
  /\ UNCHANGED <<cells, filled_rects, merged_cells, new_table, r_idx, c_idx, m_i>>

\* lines 515-560: a table model handed to insert_tables_to_template as it
\* is: up to two rows of one or two cells, col_count the longest row, one
\* span or none, any row_backgrounds
GivenRows ==
  LET row == {<<a>> : a \in {"", CellText}}
               \cup {<<a, b>> : a \in {"", CellText}, b \in {"", CellText}}
  IN {<<r1>> : r1 \in row} \cup {<<r1, r2>> : r1 \in row, r2 \in row}

GivenMerges ==
  {<<>>,
   <<[row |-> 0, col |-> 0, colspan |-> 2, rowspan |-> 1]>>,
   <<[row |-> 0, col |-> 0, colspan |-> 1, rowspan |-> 2]>>}

InitGiven ==
  /\ cells = <<>>
  /\ filled_rects = <<>>
  /\ rows \in GivenRows
  /\ col_count = MaxLen(rows)
  /\ merge_info \in GivenMerges
  /\ row_backgrounds \in [1..Len(rows) -> BOOLEAN]
  /\ merged_cells = {}
  /\ new_table = <<>>
  /\ r_idx = 0
  /\ c_idx = 0
  /\ m_i = 0
  /\ tpc = "given"

\* lines 575-585: every covered (row, col) but the origin of its span
MergedCells(ms) ==
  UNION {{<<ms[k].row + dr, ms[k].col + dc>> :
            <<dr, dc>> \in {d \in (0..(ms[k].rowspan - 1)) \X (0..(ms[k].colspan - 1)) :
                              d[1] > 0 \/ d[2] > 0}} :
         k \in 1..Len(ms)}

\* a w:tc as add_table leaves it
EmptyCell == [text |-> "", shd |-> FALSE, gridSpan |-> 0, vMerge |-> "none"]

\* line 566, doc.add_table(rows=len(rows), cols=col_count)
AddTable(nrows, ncols) == [r \in 1..nrows |-> [c \in 1..ncols |-> EmptyCell]]

\* lines 562-589: the new table and the set of the covered cells; a table
\* without rows is skipped
CreateTable ==
  /\ tpc \in {"extracted", "given"}
  /\ IF rows = <<>>
     THEN /\ tpc' = "skipped"
          /\ UNCHANGED <<merged_cells, new_table>>
     ELSE /\ new_table' = AddTable(Len(rows), col_count)
          /\ merged_cells' = MergedCells(merge_info)
          /\ tpc' = "filling"
  /\ UNCHANGED <<cells, filled_rects, rows, col_count, merge_info,
                 row_backgrounds, r_idx, c_idx, m_i>>

\* line 598
NeedsGrayBg(r) == IF r < Len(row_backgrounds) THEN row_backgrounds[r + 1] ELSE FALSE

\* lines 591-620, one turn of the inner loop: the text of the cell
\* (r_idx, c_idx) of the source rows is set, and then the shading of that
\* cell when its row is gray; every row of the source has a cell (line 156)
FillCell ==
  /\ tpc = "filling"
  /\ new_table' =
       IF r_idx >= Len(new_table) \/ c_idx >= Len(new_table[r_idx + 1])
       THEN new_table
       ELSE [new_table EXCEPT ![r_idx + 1][c_idx + 1] =
               [@ EXCEPT !.text = rows[r_idx + 1][c_idx + 1],
                         !.shd = IF NeedsGrayBg(r_idx) THEN TRUE ELSE @]]
  /\ IF c_idx + 1 < Len(rows[r_idx + 1])
     THEN /\ c_idx' = c_idx + 1
          /\ UNCHANGED <<r_idx, tpc>>
     ELSE /\ c_idx' = 0
          /\ r_idx' = r_idx + 1
          /\ tpc' = IF r_idx + 1 < Len(rows) THEN "filling" ELSE "filled"
  /\ UNCHANGED <<cells, filled_rects, rows, col_count, merge_info,
                 row_backgrounds, merged_cells, m_i>>

\* lines 488-493: w:vMerge of row dr of a span, "continue" for no w:val
VMergeVal(dr) == IF dr = 0 THEN "restart" ELSE "continue"

\* lines 445-493: row dr of span m
ApplyRow(t, m, mc, dr) ==
  LET row_idx == m.row + dr
      col_idx == m.col
  IN IF row_idx >= Len(t) THEN t
     ELSE IF col_idx >= Len(t[row_idx + 1]) THEN t
     ELSE LET tc == t[row_idx + 1][col_idx + 1]
          IN [t EXCEPT ![row_idx + 1][col_idx + 1] =
                [text |-> IF <<row_idx, col_idx>> \in mc THEN "" ELSE tc.text,
                 shd |-> tc.shd,
                 gridSpan |-> IF m.colspan > 1 THEN m.colspan ELSE tc.gridSpan,
                 vMerge |-> IF m.rowspan > 1 THEN VMergeVal(dr) ELSE tc.vMerge]]

\* line 444: for dr in range(rowspan)
RECURSIVE ApplyRows(_, _, _, _)
ApplyRows(t, m, mc, dr) ==
  IF dr >= m.rowspan THEN t
  ELSE ApplyRows(ApplyRow(t, m, mc, dr), m, mc, dr + 1)

\* the merges applied from inside the loop that fills the table
FillingOrFilled == tpc \in {"filling", "filled"}

\* lines 622-623: _apply_merge_to_table is called after the loop over the
\* rows has ended
FillLoopEnded == tpc = "filled"

\* lines 437-493: the next span of _apply_merge_to_table
ApplyMerge ==
  /\ FillLoopEnded
  /\ m_i < Len(merge_info)
  /\ new_table' = ApplyRows(new_table, merge_info[m_i + 1], merged_cells, 0)
  /\ m_i' = m_i + 1
  /\ UNCHANGED <<cells, filled_rects, rows, col_count, merge_info,
                 row_backgrounds, merged_cells, r_idx, c_idx, tpc>>

\* lines 623-627: all spans are applied, the table goes into the document
InsertTable ==
  /\ tpc = "filled"
  /\ m_i = Len(merge_info)
  /\ tpc' = "inserted"
  /\ UNCHANGED <<cells, filled_rects, rows, col_count, merge_info,
                 row_backgrounds, merged_cells, new_table, r_idx, c_idx, m_i>>

\* ------------------------------------------ _analyze_merged_cells alone
\* the edges of the quads handed to the function, in half points: next to
\* edges 3.5 and 7 points apart there are edges half a point apart, which
\* round to the same value
MergeXEdges == {0, 1, 7, 14}
MergeYEdges == {0, 1, 7, 14}

MergeQuads ==
  {q \in MergeXEdges \X MergeYEdges \X MergeXEdges \X MergeYEdges :
     q[1] < q[3] /\ q[2] < q[4]}

\* table_obj.cells: no cell, one or two
MergeCells ==
  {<<>>} \cup {<<q>> : q \in MergeQuads} \cup {<<p, q>> : p \in MergeQuads, q \in MergeQuads}

\* rows and col_count as passed by a caller
MergeRows == {<<>>, <<<<CellText>>>>, <<<<CellText, CellText>>, <<CellText, CellText>>>>}
MergeColCounts == {0, 2}

\* _analyze_merged_cells(table_obj, rows, col_count) is called
InitMerge ==
  /\ cells \in MergeCells
  /\ rows \in MergeRows
  /\ col_count \in MergeColCounts
  /\ filled_rects = <<>>
  /\ merge_info = <<>>
  /\ row_backgrounds = <<>>
  /\ merged_cells = {}
  /\ new_table = <<>>
  /\ r_idx = 0
  /\ c_idx = 0
  /\ m_i = 0
  /\ tpc = "called"

\* lines 276-318: the function returns merge_info
AnalyzeReturns ==
  /\ tpc = "called"
  /\ merge_info' = AnalyzeMergedCells(cells, rows, col_count)
  /\ tpc' = "analyzed"
  /\ UNCHANGED <<cells, filled_rects, rows, col_count, row_backgrounds, merged_cells,
                 new_table, r_idx, c_idx, m_i>>

\* ------------------------------------------------------------- filter
FilterAlphabet == {"2", "V", " ", "%", "-", "zh_tong"}

\* the texts _should_translate is called with
FilterTexts ==
  SeqsUpTo(FilterAlphabet, MaxText) \cup {T_220V, T_IEC, T_PASS, T_TONGGUO, T_RATIO}

FilterOff ==
  /\ f_text = <<>>
  /\ should = FALSE
  /\ fpc = "off"

InitFilter ==
  /\ f_text \in FilterTexts
  /\ should = FALSE
  /\ fpc = "called"

\* lines 113-126
ShouldTranslateReturns ==
  /\ fpc = "called"
  /\ should' = ShouldTranslate(f_text)
  /\ fpc' = "returned"
  /\ UNCHANGED f_text

\* ------------------------------------------------- extraction of a range
\* what a page does: find_tables raises, or returns table objects; each
\* table object's extract() returns rows ("rows"), returns nothing
\* ("none") or raises ("raises")
PageKinds ==
  {[find_tables |-> "raises", objs |-> <<>>]}
  \cup {[find_tables |-> "ok", objs |-> o] :
          o \in SeqsUpTo({"rows", "none", "raises"}, 2)}

Ranges == SeqsUpTo(PageKinds, MaxRange)

ExtractOff ==
  /\ x_pages = <<>>
  /\ page_idx = 0
  /\ x_tables = <<>>
  /\ xpc = "off"

\* lines 120-123
InitExtract ==
  /\ x_pages \in Ranges
  /\ page_idx = 0
  /\ x_tables = <<>>
  /\ xpc = "pages"

\* lines 143-189: the tables of one page, up to the first extract() that
\* raises; k is the table object the loop is at
RECURSIVE PageTables(_, _, _)
PageTables(page_num, objs, k) ==
  IF k > Len(objs) \/ objs[k] = "raises" THEN <<>>
  ELSE IF objs[k] = "none" THEN PageTables(page_num, objs, k + 1)
  ELSE <<<<page_num, k>>>> \o PageTables(page_num, objs, k + 1)

\* line 148 is outside the try of lines 130-141: an exception of extract()
\* leaves extract_tables_from_range
ExtractPropagates(objs) == \E k \in 1..Len(objs) : objs[k] = "raises"

\* lines 123-189: one page of the range
ExtractPage ==
  /\ xpc = "pages"
  /\ page_idx < Len(x_pages)
  /\ LET page == x_pages[page_idx + 1]
     IN IF page.find_tables = "raises"
        THEN /\ page_idx' = page_idx + 1
             /\ UNCHANGED <<x_tables, xpc>>
        ELSE IF ExtractPropagates(page.objs)
        THEN /\ xpc' = "raised"
             /\ x_tables' = x_tables \o PageTables(page_idx + 1, page.objs, 1)
             /\ UNCHANGED page_idx
        ELSE /\ page_idx' = page_idx + 1
             /\ x_tables' = x_tables \o PageTables(page_idx + 1, page.objs, 1)
             /\ UNCHANGED xpc
  /\ UNCHANGED x_pages

\* lines 191-192: the loop has ended, tables is returned
ExtractReturns ==
  /\ xpc = "pages"
  /\ page_idx = Len(x_pages)
  /\ xpc' = "returned"
  /\ UNCHANGED <<x_pages, page_idx, x_tables>>

\* ------------------------------------------------------- specifications
Init == InitEngine /\ RangeOff /\ TableOff /\ FilterOff /\ ExtractOff

Next ==
  \/ \E text \in TextPool : Fresh /\ Translate(text) /\ UNCHANGED <<rangeVars, tableVars, filterVars, extractVars>>
  \/ \E xs \in BatchInputs : Fresh /\ TranslateBatch(xs) /\ UNCHANGED <<rangeVars, tableVars, filterVars, extractVars>>
  \/ \E fields \in ReviewInputs : FinalReview(fields) /\ UNCHANGED <<rangeVars, tableVars, filterVars, extractVars>>
  \/ \E tables \in TableInputs : Fresh /\ TranslateTables(tables) /\ UNCHANGED <<rangeVars, tableVars, filterVars, extractVars>>
  \/ WorkerStart /\ UNCHANGED <<rangeVars, tableVars, filterVars, extractVars>>
  \/ \E b \in 1..MaxBatch : UpstreamOk(b) /\ UNCHANGED <<rangeVars, tableVars, filterVars, extractVars>>
  \/ \E b \in 1..MaxBatch : UpstreamFail(b) /\ UNCHANGED <<rangeVars, tableVars, filterVars, extractVars>>
  \/ \E b \in 1..MaxBatch : Collect(b) /\ UNCHANGED <<rangeVars, tableVars, filterVars, extractVars>>
  \/ BatchReturn /\ UNCHANGED <<rangeVars, tableVars, filterVars, extractVars>>
  \/ CallerProceeds /\ UNCHANGED <<rangeVars, tableVars, filterVars, extractVars>>

Spec == Init /\ [][Next]_vars

\* translate_batch and final_review with their workers: the pool threads run
\* the queued futures, as_completed yields the finished ones and the main
\* thread goes on; every upstream call returns or raises (each of these
\* steps changes task, the return changes pc)
NextLive ==
  \/ \E xs \in BatchInputs : Fresh /\ TranslateBatch(xs) /\ UNCHANGED <<rangeVars, tableVars, filterVars, extractVars>>
  \/ \E fields \in ReviewInputs : FinalReview(fields) /\ UNCHANGED <<rangeVars, tableVars, filterVars, extractVars>>
  \/ WorkerStart /\ UNCHANGED <<rangeVars, tableVars, filterVars, extractVars>>
  \/ \E b \in 1..MaxBatch : UpstreamOk(b) /\ UNCHANGED <<rangeVars, tableVars, filterVars, extractVars>>
  \/ \E b \in 1..MaxBatch : UpstreamFail(b) /\ UNCHANGED <<rangeVars, tableVars, filterVars, extractVars>>
  \/ \E b \in 1..MaxBatch : Collect(b) /\ UNCHANGED <<rangeVars, tableVars, filterVars, extractVars>>
  \/ BatchReturn /\ UNCHANGED <<rangeVars, tableVars, filterVars, extractVars>>
  \/ CallerProceeds /\ UNCHANGED <<rangeVars, tableVars, filterVars, extractVars>>

SpecLive ==
  /\ Init
  /\ [][NextLive]_vars
  /\ WF_task(WorkerStart /\ UNCHANGED <<rangeVars, tableVars, filterVars, extractVars>>)
  /\ WF_task(\E b \in 1..MaxBatch : (UpstreamOk(b) \/ UpstreamFail(b))
                /\ UNCHANGED <<rangeVars, tableVars, filterVars, extractVars>>)
  /\ WF_task(\E b \in 1..MaxBatch : Collect(b)
                /\ UNCHANGED <<rangeVars, tableVars, filterVars, extractVars>>)
  /\ WF_pc(BatchReturn /\ UNCHANGED <<rangeVars, tableVars, filterVars, extractVars>>)

InitOfRange == EngineOff /\ InitRange /\ TableOff /\ FilterOff /\ ExtractOff

NextRange ==
  \/ ScanPage /\ UNCHANGED <<engineVars, tableVars, filterVars, extractVars>>
  \/ ScanNothing /\ UNCHANGED <<engineVars, tableVars, filterVars, extractVars>>
  \/ FinishScan /\ UNCHANGED <<engineVars, tableVars, filterVars, extractVars>>

SpecRange == InitOfRange /\ [][NextRange]_vars

InitOfTable == EngineOff /\ RangeOff /\ (InitTable \/ InitGiven) /\ FilterOff /\ ExtractOff

NextTable ==
  \/ ExtractTable /\ UNCHANGED <<engineVars, rangeVars, filterVars, extractVars>>
  \/ CreateTable /\ UNCHANGED <<engineVars, rangeVars, filterVars, extractVars>>
  \/ FillCell /\ UNCHANGED <<engineVars, rangeVars, filterVars, extractVars>>
  \/ ApplyMerge /\ UNCHANGED <<engineVars, rangeVars, filterVars, extractVars>>
  \/ InsertTable /\ UNCHANGED <<engineVars, rangeVars, filterVars, extractVars>>

SpecTable == InitOfTable /\ [][NextTable]_vars

InitOfFilter == EngineOff /\ RangeOff /\ TableOff /\ InitFilter /\ ExtractOff

NextFilter == ShouldTranslateReturns /\ UNCHANGED <<engineVars, rangeVars, tableVars, extractVars>>

SpecFilter == InitOfFilter /\ [][NextFilter]_vars

InitOfMerge == EngineOff /\ RangeOff /\ InitMerge /\ FilterOff /\ ExtractOff

NextMerge == AnalyzeReturns /\ UNCHANGED <<engineVars, rangeVars, filterVars, extractVars>>

SpecMerge == InitOfMerge /\ [][NextMerge]_vars

InitOfExtract == EngineOff /\ RangeOff /\ TableOff /\ FilterOff /\ InitExtract

NextExtract ==
  \/ ExtractPage /\ UNCHANGED <<engineVars, rangeVars, tableVars, filterVars>>
  \/ ExtractReturns /\ UNCHANGED <<engineVars, rangeVars, tableVars, filterVars>>

SpecExtract == InitOfExtract /\ [][NextExtract]_vars

\* ---------------------------------------------------------------- claims
Translations(text) == {Strip(content) : content \in Backend(text)}

Eligible(xs) == {i \in 1..Len(xs) : ShouldTranslate(xs[i])}

AllCJK(t) == t # <<>> /\ \A i \in 1..Len(t) : t[i] \in CJK

BatchReturned == enabled /\ pc = "returned" /\ cur.kind = "batch"

\* C1: while no completion has failed, no trimmed text is requested upstream
\* more than once, and the first translate_batch of a run returns having
\* requested exactly the K distinct trimmed texts of its eligible items.
C1_OneUpstreamCallPerText ==
  ~backend_failed =>
    /\ \A k \in DOMAIN upstream_calls : upstream_calls[k] = 1
    /\ (BatchReturned /\ nops = 1) =>
         DOMAIN upstream_calls = {Strip(cur.arg[i]) : i \in Eligible(cur.arg)}

\* C2: translate_batch returns a list as long as its input whose slot i
\* holds texts[i] or a translation of texts[i] (texts[i] itself when it is
\* not eligible); while it runs and when it returns, the slot of every
\* collected future holds that future's result and no other slot is touched.
C2_SlotsKeepTheirIndex ==
  /\ (enabled /\ pc = "batch" /\ cur.kind = "batch") =>
       /\ Len(results) = Len(cur.arg)
       /\ \A b \in 1..Len(task) :
            results[indices[b]] = IF task[b].st = "collected" THEN task[b].out
                                  ELSE cur.arg[indices[b]]
  /\ BatchReturned =>
       /\ Len(ret) = Len(cur.arg)
       /\ \A b \in 1..Len(task) : ret[indices[b]] = task[b].out
       /\ \A i \in 1..Len(cur.arg) :
            ret[i] \in IF ShouldTranslate(cur.arg[i])
                       THEN {cur.arg[i]} \cup Translations(cur.arg[i])
                       ELSE {cur.arg[i]}

\* the second future was collected while the first is still waiting for
\* its completion
C2_Witness ==
  /\ enabled /\ pc = "batch" /\ cur.kind = "batch"
  /\ Len(task) = 2
  /\ task[1].st = "calling" /\ task[2].st = "collected" /\ task[2].how = "ok"
  /\ to_translate[1] # to_translate[2]

\* C3: an engine built without the package, without an API key or with a
\* failing client constructor is disabled, requests nothing upstream, caches
\* nothing, and returns the argument of every call unchanged.
C3_DisabledIsIdentity ==
  (~env.has_openai \/ ~env.api_key \/ ~env.ctor_ok) =>
    /\ ~enabled
    /\ DOMAIN upstream_calls = {}
    /\ DOMAIN cache = {}
    /\ pc # "batch"
    /\ pc = "returned" => ret = cur.arg

C3_Witness ==
  /\ ~env.api_key /\ env.has_openai /\ env.ctor_ok
  /\ pc = "returned" /\ cur.kind = "batch"
  /\ Eligible(cur.arg) # {}

\* C4: when translate_batch returns, the slot of every item whose completion
\* failed holds the item's source text, the slot of every other submitted
\* item holds a translation of that item, and the remaining slots hold what
\* the cache or the input gave them: the list is complete.
C4_FailureFallsBackPerItem ==
  BatchReturned =>
    /\ Len(ret) = Len(cur.arg)
    /\ \A b \in 1..Len(task) :
         IF task[b].how = "fail"
         THEN ret[indices[b]] = cur.arg[indices[b]]
         ELSE ret[indices[b]] \in Translations(cur.arg[indices[b]])
    /\ \A i \in 1..Len(cur.arg) :
         (\A b \in 1..Len(task) : indices[b] # i) =>
           ret[i] \in IF ShouldTranslate(cur.arg[i])
                      THEN Translations(cur.arg[i]) ELSE {cur.arg[i]}

C4_Witness ==
  /\ BatchReturned
  /\ \E b, c \in 1..Len(task) : task[b].how = "fail" /\ task[c].how = "ok"

\* a final_review of the fields the final_review before it returned
SecondReviewReturned ==
  /\ enabled /\ pc = "returned" /\ cur.kind = "review"
  /\ last.kind = "review" /\ cur.arg = last.out

\* the review before turned every eligible field into CJK-only text
FirstReviewTranslated ==
  \A f \in 1..Len(last.arg) : ShouldTranslate(last.arg[f]) => AllCJK(last.out[f])

StartPages == {i \in 0..Len(pages) - 1 : START_MARKER \in pages[i + 1]}
EndPages == {i \in 0..Len(pages) - 1 : HasEndMarker(pages[i + 1])}
Result == <<start_page, end_page>>

\* C6 as claimed: with the first start marker on page s, the result is
\* (s, e) for the first page e from s on that holds an end marker and (s, n)
\* when there is none; with no marker on any page it is (0, n); for pages
\* [A,B,C,D] with the start marker in B and an end marker in D it is (1,3).
C6_RangeIsStartToFirstEndAfter ==
  rpc = "done" =>
    LET n == Len(pages)
    IN /\ StartPages # {} =>
            LET s == Min(StartPages)
                after == {e \in EndPages : e >= s}
            IN Result = <<s, IF after # {} THEN Min(after) ELSE n>>
       /\ (StartPages = {} /\ EndPages = {}) => Result = <<0, n>>

\* C7 as claimed: an end marker counts only once the start marker has been
\* seen: the upper bound is a page at or after the first start-marker page
\* or stays pageCount, and without any start marker the result is
\* (0, pageCount).
C7_EndMarkerOnlyInRange ==
  /\ end_page # Len(pages) /\ rpc # "off" =>
       (StartPages # {} /\ Min(StartPages) <= end_page)
  /\ (rpc = "done" /\ StartPages = {}) => Result = <<0, Len(pages)>>

\* the grid of a table, counted on its edges: a cell's row is the number of
\* row edges above its top, its row span the number of row edges below its
\* top down to its bottom; columns likewise
XGrid == {Round(c[1]) : c \in Range(cells)} \cup {Round(c[3]) : c \in Range(cells)}
YGrid == {Round(c[2]) : c \in Range(cells)} \cup {Round(c[4]) : c \in Range(cells)}

GridSpan(cell) ==
  [row |-> Cardinality({e \in YGrid : e < Round(cell[2])}),
   col |-> Cardinality({e \in XGrid : e < Round(cell[1])}),
   colspan |-> Cardinality({e \in XGrid : Round(cell[1]) < e /\ e <= Round(cell[3])}),
   rowspan |-> Cardinality({e \in YGrid : Round(cell[2]) < e /\ e <= Round(cell[4])})]

SpansSeveral(cell) == GridSpan(cell).colspan > 1 \/ GridSpan(cell).rowspan > 1

Analyzed == cells # <<>> /\ tpc \in {"extracted", "filling", "filled", "inserted"}

\* merge_info holds exactly one span for each cell whose index is in Q, and
\* nothing else
OneSpanForEach(Q) ==
  /\ Len(merge_info) = Cardinality(Q)
  /\ \A i \in Q :
       Cardinality({j \in 1..Len(merge_info) : merge_info[j] = GridSpan(cells[i])}) = 1

SyntheticSpan == [row |-> 0, col |-> 0, colspan |-> 3, rowspan |-> 2]

\* C8 as stated: the Merge Inferencer addresses every cell by the index of
\* its rounded top-left edge and spans it by the index distance to its
\* bottom-right edge, and returns exactly one span for each cell with
\* colSpan > 1 or rowSpan > 1; for the synthetic table exactly
\* {row 0, col 0, colSpan 3, rowSpan 2}.
C8_OneSpanPerMergedCell ==
  Analyzed =>
    /\ OneSpanForEach({i \in 1..Len(cells) : SpansSeveral(cells[i])})
    /\ cells = SyntheticTable => merge_info = <<SyntheticSpan>>

\* C8, amended: exactly one span for each cell with colSpan > 1 or
\* rowSpan > 1 whose row index is below the number of rows of the table; a
\* merged cell whose row index is not is left out.
C8_OneSpanPerMergedCellInRows ==
  Analyzed =>
    /\ OneSpanForEach({i \in 1..Len(cells) :
                         SpansSeveral(cells[i]) /\ GridSpan(cells[i]).row < Len(rows)})
    /\ cells = SyntheticTable => merge_info = <<SyntheticSpan>>

C8_Witness ==
  /\ Analyzed
  /\ merge_info # <<>>
  /\ \E i \in 1..Len(cells) :
       SpansSeveral(cells[i]) /\ GridSpan(cells[i]).row >= Len(rows)

\* C9: a table in which every cell occupies exactly one grid row and one
\* grid column gets an empty merge set.
C9_NoMergedCellNoSpan ==
  (Analyzed /\ \A i \in 1..Len(cells) : ~SpansSeveral(cells[i])) =>
    merge_info = <<>>

C9_Witness ==
  /\ Analyzed
  /\ Len(cells) >= 3
  /\ \A i \in 1..Len(cells) : ~SpansSeveral(cells[i])
  /\ merge_info = <<>>

\* the w:vMerge of the cell at (r, c) of the new table, 0-based
MarkerAt(r, c) ==
  IF r < Len(new_table) /\ c < Len(new_table[r + 1])
  THEN new_table[r + 1][c + 1].vMerge ELSE "none"

\* C10 as stated: after materialization every span with rowSpan > 1 has
\* the start marker on the cell of its column in the origin row and the
\* value-less continuation marker on the cell of its column in every row
\* row+1 .. row+rowSpan-1.
C10_StartThenContinuation ==
  tpc = "inserted" =>
    \A k \in 1..Len(merge_info) :
      LET m == merge_info[k]
      IN m.rowspan > 1 =>
           /\ MarkerAt(m.row, m.col) = "restart"
           /\ \A r \in (m.row + 1)..(m.row + m.rowspan - 1) :
                MarkerAt(r, m.col) = "continue"

\* the shadow cells of the spans of merge_info: covered, and not the origin
ShadowCells ==
  UNION {{<<merge_info[k].row + dr, merge_info[k].col + dc>> :
            <<dr, dc>> \in {d \in (0..(merge_info[k].rowspan - 1))
                                \X (0..(merge_info[k].colspan - 1)) : d # <<0, 0>>}} :
         k \in 1..Len(merge_info)}

InTable(r, c) == r < Len(new_table) /\ c < Len(new_table[r + 1])

\* C11 as stated: after materialization every shadow cell of the new table
\* is empty, whatever text the source rows held at its position.
C11_ShadowCellsEmpty ==
  tpc = "inserted" =>
    \A rc \in ShadowCells :
      InTable(rc[1], rc[2]) => new_table[rc[1] + 1][rc[2] + 1].text = ""

\* C12 as stated: "220V +-10%" is not eligible, "IEC 62368-1" is not
\* eligible, "PASS" is eligible and the two CJK characters of "pass" are
\* not eligible.
C12_EligibilityExamples ==
  fpc = "returned" =>
    /\ f_text = T_220V => ~should
    /\ f_text = T_IEC => ~should
    /\ f_text = T_PASS => should
    /\ f_text = T_TONGGUO => ~should

TablesReturned == pc = "returned" /\ cur.kind = "tables"

\* C13: translate_tables keeps the structure: as many tables, each with
\* its page, row count, row lengths, col_count, merge_info and
\* row_backgrounds; a cell differs from the input only if it was sent for
\* translation, and then it holds its own source text or a translation of
\* it; the caller's tables keep their value.
C13_TranslateTablesKeepsStructure ==
  TablesReturned =>
    LET given == cur.given
    IN /\ cur.arg = given
       /\ Len(ret) = Len(given)
       /\ \A t \in 1..Len(given) :
            /\ ret[t].page = given[t].page
            /\ ret[t].col_count = given[t].col_count
            /\ ret[t].merge_info = given[t].merge_info
            /\ ret[t].row_backgrounds = given[t].row_backgrounds
            /\ Len(ret[t].rows) = Len(given[t].rows)
            /\ \A r \in 1..Len(given[t].rows) :
                 /\ Len(ret[t].rows[r]) = Len(given[t].rows[r])
                 /\ \A c \in 1..Len(given[t].rows[r]) :
                      LET source == given[t].rows[r][c]
                          sent == source # <<>> /\ NeedsTranslation(source)
                      IN ret[t].rows[r][c] \in
                           IF sent THEN {source} \cup Translations(source)
                           ELSE {source}

C13_Witness ==
  /\ TablesReturned
  /\ Len(ret) = 2
  /\ ret[1].rows[1][1] \in Translations(cur.given[1].rows[1][1])
  /\ ret[2].rows[1][1] \in Translations(cur.given[2].rows[1][1])
  /\ ret[1].rows[1][1] # ret[2].rows[1][1]
  /\ ret[1].rows[1][1] # cur.given[1].rows[1][1]

\* the upstream calls in flight: the tasks inside the completion request
InFlight == Cardinality(Calling)

\* C14: at every moment of translate_batch at most max_workers upstream
\* calls are in flight.
C14_AtMostMaxWorkersInFlight == InFlight <= max_workers

C14_Witness ==
  /\ pc = "batch"
  /\ Len(task) = 2
  /\ max_workers = 1
  /\ InFlight = 1
  /\ Queued # {}

Shaded(r) == r <= Len(row_backgrounds) /\ row_backgrounds[r]

\* C15 as stated: in the new table every cell of a row whose row_backgrounds
\* entry is true has the fill, in all col_count columns and also when the
\* source row is shorter than col_count, and no cell of another row has it.
C15_ShadingOnWholeRow ==
  tpc \in {"filled", "inserted"} =>
    \A r \in 1..Len(new_table) :
      /\ Len(new_table[r]) = col_count
      /\ \A c \in 1..col_count : new_table[r][c].shd = Shaded(r)

\* some cell of the new table has a merge attribute
HasMergeAttribute ==
  \E r \in 1..Len(new_table) : \E c \in 1..Len(new_table[r]) :
    new_table[r][c].gridSpan # 0 \/ new_table[r][c].vMerge # "none"

\* the loop that writes the texts has not reached its end
TextOutstanding == tpc \in {"extracted", "given", "filling"}

\* C16: no cell of a table has a span or a vertical-merge marker, and no
\* span has been applied, while a text of that table is still to be written.
C16_TextBeforeMerges ==
  (HasMergeAttribute \/ m_i > 0) => ~TextOutstanding

C16_Witness ==
  /\ tpc = "filled"
  /\ Len(rows) >= 2
  /\ m_i = 1
  /\ HasMergeAttribute
  /\ \A r \in 1..Len(rows) : \E c \in 1..Len(rows[r]) : new_table[r][c].text # ""

HasShading ==
  \E r \in 1..Len(new_table) : \E c \in 1..Len(new_table[r]) : new_table[r][c].shd

\* C17 as stated: the table is created first, no shading is set before the
\* last text of the table has been set, and no merge attribute before the
\* last shading.
C17_CreateTextShadeMerge ==
  /\ tpc \in {"found", "extracted", "given"} => new_table = <<>>
  /\ HasShading => ~TextOutstanding
  /\ (HasMergeAttribute \/ m_i > 0) => ~TextOutstanding

\* the pages of the range whose geometry is parsed: find_tables and every
\* extract() return
Parsed(p) ==
  /\ x_pages[p].find_tables = "ok"
  /\ \A k \in 1..Len(x_pages[p].objs) : x_pages[p].objs[k] # "raises"

\* C18 as stated: when find_tables or extract() raises on a page, that
\* page's tables are skipped and the run goes on: it is never aborted, and
\* it returns the tables of all the other pages.
C18_FailedPageIsSkipped ==
  /\ xpc # "raised"
  /\ xpc = "returned" =>
       \A p \in 1..Len(x_pages) :
         Parsed(p) =>
           \A k \in 1..Len(x_pages[p].objs) :
             x_pages[p].objs[k] = "rows" => \E i \in 1..Len(x_tables) : x_tables[i] = <<p, k>>

\* C19 as stated: no span of merge_info covers a row index at or past the
\* number of rows of the table, neither with its origin row nor with a row
\* row+1 .. row+rowSpan-1.
C19_NoSpanPastLastRow ==
  Analyzed =>
    \A k \in 1..Len(merge_info) :
      \A r \in merge_info[k].row..(merge_info[k].row + merge_info[k].rowspan - 1) :
        r < Len(rows)

\* C20 as stated: a text whose trimmed form has a translation in the cache
\* has no task in the worker pool, in the batch that translated it as in a
\* later one; its occurrences are resolved from the cache without a task.
C20_CachedTextHasNoTask ==
  \A b \in 1..Len(task) :
    task[b].st = "queued" => Strip(to_translate[b]) \notin DOMAIN cache

\* C21 as stated: when a translate_batch of an enabled engine returns and no
\* upstream call of the run failed, any two slots whose source texts have the
\* same trimmed form hold the same value, whatever the backend answered and
\* however the workers interleaved.
C21_SameTextSameTranslation ==
  (BatchReturned /\ ~backend_failed) =>
    \A i, j \in 1..Len(cur.arg) :
      Strip(cur.arg[i]) = Strip(cur.arg[j]) => ret[i] = ret[j]

\* a call that went through the worker pool is running
InBatch == pc = "batch"

\* the call that went through the worker pool has returned
BatchDone == pc = "returned"

\* C22: translate_batch has returned only when every future it submitted has
\* completed (with a translation, a cache hit or the fallback after a
\* failure) and has been collected; and when every upstream call returns or
\* raises, a translate_batch that has submitted futures eventually returns.
C22_ReturnsAfterAllTasks ==
  /\ [](BatchDone => \A b \in 1..Len(task) : task[b].st = "collected" /\ task[b].how # "none")
  /\ (InBatch ~> BatchDone)

\* a batch has returned after one of its upstream calls succeeded and
\* another one raised
C22_Witness ==
  /\ BatchDone
  /\ \E a, b \in 1..Len(task) : task[a].how = "ok" /\ task[b].how = "fail"

\* a future of the pool has been submitted and has not finished
WorkerRunning == \E b \in 1..Len(task) : task[b].st \in {"queued", "calling"}

\* C23: in translate_tables, while the batch is running nothing has been
\* written (no translated tables exist and the caller's tables are as given);
\* the translated tables exist only when no worker is running any more; and
\* no step of a worker changes the tables, so the writes are those of the
\* thread that called translate_tables.
C23_CellWritesAfterBatch ==
  /\ [](cur.kind = "tables" =>
          /\ pc = "batch" => ret = <<>> /\ cur.arg = cur.given
          /\ pc = "returned" => ~WorkerRunning)
  /\ [][(pc = "batch" /\ pc' = "batch" /\ cur.kind = "tables") =>
          ret' = ret /\ cur' = cur]_vars

\* translate_tables has returned tables with a translated cell after its
\* batch ran two workers
C23_Witness ==
  /\ TablesReturned
  /\ Len(task) = 2
  /\ \A b \in 1..Len(task) : task[b].how = "ok"
  /\ ret # cur.given

\* a final_review is in its batch or has returned
InReview == cur.kind = "review" /\ pc \in {"batch", "returned"}
ReviewReturned == cur.kind = "review" /\ pc = "returned"

\* the field names of fields whose value is eligible for translation
EligibleFields(fields) == {f \in 1..Len(fields) : ShouldTranslate(fields[f])}

\* C24: an enabled final_review hands to translate_batch exactly the fields
\* whose value is eligible; whatever the engine state, the result has the
\* field names of the input and every field that is not eligible keeps its
\* value; and a review of fields with no eligible value returns them
\* unchanged, submits no task and adds no upstream call.
C24_ReviewOnlyResidual ==
  /\ [](InReview /\ enabled =>
          {keys[i] : i \in 1..Len(keys)} = EligibleFields(cur.arg))
  /\ [](ReviewReturned =>
          /\ DOMAIN ret = DOMAIN cur.arg
          /\ \A f \in (DOMAIN cur.arg) \ EligibleFields(cur.arg) : ret[f] = cur.arg[f]
          /\ EligibleFields(cur.arg) = {} => ret = cur.arg /\ task = <<>>)
  /\ [][(cur'.kind = "review" /\ EligibleFields(cur'.arg) = {}) =>
          upstream_calls' = upstream_calls]_vars

\* an enabled review has returned fields of which one was eligible and came
\* back translated while the other was not and kept its value
C24_Witness ==
  /\ ReviewReturned
  /\ enabled
  /\ Cardinality(EligibleFields(cur.arg)) = 1
  /\ \E f \in EligibleFields(cur.arg) : ret[f] # cur.arg[f]

\* the characters of a numeric/symbol text: digits, whitespace and the
\* signs, with the plus-minus sign of "220V +-10%"
NumericSymbol == NumSym \cup {"pm"}

\* a text of numeric/unit/symbol characters only: a unit letter stands
\* behind a digit, as the V of "220V +-10%"
OnlyNumericUnitSymbol(text) ==
  /\ text # <<>>
  /\ \A i \in 1..Len(text) :
       \/ text[i] \in NumericSymbol
       \/ text[i] = "V" /\ i > 1 /\ text[i - 1] \in Digits

\* uppercase letters followed by digits: "IEC 62368-1"
StandardsCode(text) == MatchStandard(Strip(text))

\* the ratio of CJK characters to non-whitespace characters is above 0.3
CJKRatioAbove(text) ==
  10 * CountIn(text, CJK) > 3 * (Len(text) - CountIn(text, Whitespace))

\* C25 as stated: _should_translate returns false exactly when the text is
\* empty or shorter than 3 characters once trimmed, or its CJK ratio is
\* strictly above 0.3, or it has numeric/unit/symbol characters only, or it
\* is a standards code; every other text is eligible.
C25_EligibleExactly ==
  fpc = "returned" =>
    (should <=> ~(\/ f_text = <<>>
                  \/ Len(Strip(f_text)) < 3
                  \/ CJKRatioAbove(f_text)
                  \/ OnlyNumericUnitSymbol(f_text)
                  \/ StandardsCode(f_text)))

\* C26: no trimmed text that fails the eligibility filter is ever requested
\* upstream or stored in the cache, and translate, translate_batch and
\* final_review return every ineligible text unchanged.
C26_NoUpstreamCallForIneligible ==
  /\ \A k \in DOMAIN upstream_calls : ShouldTranslate(k)
  /\ \A k \in DOMAIN cache : ShouldTranslate(k)
  /\ \A b \in 1..Len(task) :
       task[b].st = "calling" \/ task[b].how \in {"ok", "fail"} => ShouldTranslate(to_translate[b])
  /\ (pc = "returned" /\ cur.kind = "translate" /\ ~ShouldTranslate(cur.arg)) => ret = cur.arg
  /\ (pc = "returned" /\ cur.kind \in {"batch", "review"}) =>
       \A i \in 1..Len(cur.arg) : ~ShouldTranslate(cur.arg[i]) => ret[i] = cur.arg[i]

\* an enabled translate_batch has returned a list with an ineligible text
\* next to one that was translated upstream
C26_Witness ==
  /\ BatchReturned
  /\ \E i \in 1..Len(cur.arg) : ~ShouldTranslate(cur.arg[i])
  /\ \E b \in 1..Len(task) : task[b].how = "ok"

\* the distinct rounded column edges and row edges of the cells
ColumnEdges == {Round(cells[i][1]) : i \in 1..Len(cells)} \cup {Round(cells[i][3]) : i \in 1..Len(cells)}
RowEdges == {Round(cells[i][2]) : i \in 1..Len(cells)} \cup {Round(cells[i][4]) : i \in 1..Len(cells)}

\* C27: _analyze_merged_cells returns the empty list when the cells have
\* fewer than 2 distinct rounded column edges or fewer than 2 distinct
\* rounded row edges, and when there are no cells, no rows or no columns.
C27_DegenerateTableNoSpans ==
  (/\ tpc = "analyzed"
   /\ \/ Cardinality(ColumnEdges) < 2
      \/ Cardinality(RowEdges) < 2
      \/ cells = <<>>
      \/ rows = <<>>
      \/ col_count = 0) =>
    merge_info = <<>>

\* the function has returned for a table with rows and columns whose cells
\* all lie on one rounded column edge while one of them reaches over two
\* row intervals
C27_Witness ==
  /\ tpc = "analyzed"
  /\ rows # <<>> /\ col_count > 0 /\ cells # <<>>
  /\ Cardinality(ColumnEdges) = 1
  /\ Cardinality(RowEdges) = 3
  /\ merge_info = <<>>

\* C28 as stated: every span the function returns, for any cells, has
\* colspan >= 1 and rowspan >= 1 and one of the two above 1.
C28_SpansAtLeastOne ==
  tpc = "analyzed" =>
    \A k \in 1..Len(merge_info) :
      /\ merge_info[k].colspan >= 1
      /\ merge_info[k].rowspan >= 1
      /\ merge_info[k].colspan > 1 \/ merge_info[k].rowspan > 1

\* the (row, col) cells a span covers, its origin included
CoveredBy(m) == (m.row..(m.row + m.rowspan - 1)) \X (m.col..(m.col + m.colspan - 1))

\* C29: in the table model of an extracted table no (row, col) cell is
\* covered by two spans of merge_info: every shadow cell belongs to one span
\* and no origin of a span is a shadow cell of another; the set of covered
\* cells built by insert_tables_to_template holds no origin of a span.
C29_SpansDisjoint ==
  Analyzed =>
    /\ \A j, k \in 1..Len(merge_info) :
         j # k => CoveredBy(merge_info[j]) \cap CoveredBy(merge_info[k]) = {}
    /\ tpc \in {"filling", "filled", "inserted"} =>
         \A k \in 1..Len(merge_info) :
           <<merge_info[k].row, merge_info[k].col>> \notin merged_cells

\* the new table of an extracted table with two spans is being filled
C29_Witness ==
  /\ Analyzed
  /\ tpc = "filled"
  /\ Len(merge_info) >= 2
  /\ merged_cells # {}

\* the cell that holds column 0 of extracted row r (0-based): it starts at
\* the left edge of the table and reaches over the top of the row
LeadingCells(r) ==
  {i \in 1..Len(cells) :
     /\ cells[i][1] = Lefts(cells)[1]
     /\ cells[i][2] <= Tops(cells)[r + 1]
     /\ Tops(cells)[r + 1] < cells[i][4]}

\* C30 as stated: row r of an extracted table is marked shaded exactly when
\* a gray rectangle of the page contains the leading cell of row r within
\* the tolerance, in tables with merged cells as in tables without.
C30_ShadedIffLeadingCellCovered ==
  Analyzed =>
    \A r \in 0..(Len(rows) - 1) :
      row_backgrounds[r + 1] <=>
        \E i \in LeadingCells(r) : \E k \in 1..Len(filled_rects) :
          Covers(filled_rects[k], cells[i])

\* the w:gridSpan of the cell at (r, c) of the new table, 0-based; 0 when
\* the cell has none or does not exist
GridSpanAt(r, c) ==
  IF r < Len(new_table) /\ c < Len(new_table[r + 1])
  THEN new_table[r + 1][c + 1].gridSpan ELSE 0

\* C31 as stated: after materialization every span with colSpan > 1 has
\* gridSpan = colSpan on the cell of its column in every row
\* row .. row+rowSpan-1.
C31_GridSpanOnEveryRow ==
  tpc = "inserted" =>
    \A k \in 1..Len(merge_info) :
      LET m == merge_info[k]
      IN m.colspan > 1 =>
           \A r \in m.row..(m.row + m.rowspan - 1) : GridSpanAt(r, m.col) = m.colspan

\* C32: find_translation_range returns (start, end) with
\* 0 <= start <= end <= n for a document of n pages, whatever markers its
\* pages hold.
C32_RangeWellFormed ==
  rpc = "done" =>
    /\ 0 <= start_page
    /\ start_page <= end_page
    /\ end_page <= Len(pages)

\* the function has returned a range that starts after the first page and
\* ends before the last one, for a start marker followed by an end marker
C32_Witness ==
  /\ rpc = "done"
  /\ 0 < start_page
  /\ start_page < end_page
  /\ end_page < Len(pages) - 1

\* C33 as stated: when the first page that holds the start marker also holds
\* an end marker, the function returns the empty range that starts and ends
\* at that page.
C33_StartPageWithEndMarkerIsEmptyRange ==
  (/\ rpc = "done"
   /\ StartPages # {}
   /\ Min(StartPages) \in EndPages) =>
    Result = <<Min(StartPages), Min(StartPages)>>

\* C34: every key of the cache is a trimmed, eligible source text and its
\* value is the stripped content of a successful completion for it (never
\* the source text of a fallback); a disabled engine has an empty cache; no
\* step removes a key; and a step in which an upstream call fails leaves the
\* cache as it was.
C34_CacheHoldsOnlyTranslations ==
  /\ [](\A k \in DOMAIN cache :
          /\ Strip(k) = k
          /\ ShouldTranslate(k)
          /\ cache[k] \in Translations(k)
          /\ cache[k] # k)
  /\ [](~enabled => DOMAIN cache = {})
  /\ [][DOMAIN cache \subseteq DOMAIN cache']_vars
  /\ [][(pc = "batch" /\ pc' = "batch" /\
           \E b \in 1..Len(task) : task'[b].how = "fail" /\ task[b].how # "fail") =>
          cache' = cache]_vars
  /\ [][(pc = "idle" /\ cur'.kind = "translate" /\ ret' = cur'.arg) =>
          cache' = cache]_vars

\* the cache holds two translations after an upstream call of the run has
\* failed
C34_Witness ==
  /\ Cardinality(DOMAIN cache) = 2
  /\ backend_failed

\* C35: the engine is enabled only if __init__ reached the client
\* constructor and it succeeded, and then the client is present; and no step
\* of a translate, translate_batch, translate_tables or final_review call,
\* a failed upstream call included, changes enabled or the client.
C35_EnabledSetOnce ==
  /\ [](enabled => client /\ env.has_openai /\ env.api_key /\ env.ctor_ok)
  /\ [][enabled' = enabled /\ client' = client]_vars

\* an enabled engine has taken a second call after an upstream call failed
C35_Witness ==
  /\ enabled
  /\ backend_failed
  /\ nops = 2
  /\ pc = "returned"

=============================================================================
